---------------------------- MODULE Spec2Model ----------------------------
(***************************************************************************)
(* Model of src/main.py: the YouTube transcript service.                   *)
(*                                                                         *)
(*   SpecUrl : extract_video_id applied to bounded URLs                    *)
(*   SpecSel : the merge of the manual and automatic track sets and the    *)
(*             two-phase track selection of get_transcript_with_ytdlp      *)
(*   SpecDec : the json3 decoder loop of get_transcript_with_ytdlp         *)
(*   Spec    : the three handlers running on one event loop, with the      *)
(*             one-shot cookie retry                                       *)
(*                                                                         *)
(* Strings.  A path "/a/b" is the sequence <<"a","b">> of its              *)
(* slash-delimited segments after the leading slash ("" is <<>>, "/" is    *)
(* <<"">>).  Any other string that may contain slashes (a video id) is a   *)
(* non-empty sequence of slash-free pieces, read joined by "/".  Subtitle  *)
(* text is a sequence of characters.  An error message is a sequence of    *)
(* message parts, read concatenated.                                       *)
(***************************************************************************)
EXTENDS Integers, Sequences, FiniteSets, TLC

VARIABLES
    url_str,          \* SpecUrl: the URL handed to extract_video_id
    video_id,         \* SpecUrl: its outcome, NotRun before the call
    subtitles,        \* SpecSel: info['subtitles']
    auto_subtitles,   \* SpecSel: info['automatic_captions']
    preferred_langs,  \* SpecSel: the caller's ordered preference list
    all_subtitles,    \* SpecSel: the merged track set, NotRun before the merge
    selected,         \* SpecSel: outcome of the selection, NotRun before it
    subtitle_json,    \* SpecDec: the parsed subtitle document
    transcript,       \* SpecDec: the decoder's output, NotRun before decoding
    cookie_file,      \* Spec: whether youtube_cookies.txt exists right now
    loop,             \* Spec: the request whose handler holds the event loop, 0 if none
    req               \* Spec: per request, the handler's locals and its response

vars == <<url_str, video_id, subtitles, auto_subtitles, preferred_langs,
          all_subtitles, selected, subtitle_json, transcript,
          cookie_file, loop, req>>

NotRun == [ok |-> FALSE, status |-> 0, val |-> <<>>, detail |-> <<>>]

\* A returned value.
Ok(v) == [ok |-> TRUE, status |-> 200, val |-> v, detail |-> <<>>]

\* raise HTTPException(status_code=s, detail=d)
HTTPException(s, d) == [ok |-> FALSE, status |-> s, val |-> <<>>, detail |-> d]

\* raise Exception(msg): status -1 marks a plain exception, not an HTTP one.
Raise(msg) == [ok |-> FALSE, status |-> -1, val |-> <<>>, detail |-> msg]

(***************************************************************************)
(* URL identifier parser                                                   *)
(***************************************************************************)
MaxPathSegs == 3
MaxQueryParams == 2

Hosts == {"www.youtube.com", "youtube.com", "youtu.be", "example.com"}
PathSegs == {"", "watch", "embed", "v", "abc"}
QueryKeys == {"v", "t"}
QueryVals == {"", "xyz"}

SeqsUpTo(S, n) == UNION {[1..k -> S] : k \in 0..n}

Urls == [netloc : Hosts,
         path : SeqsUpTo(PathSegs, MaxPathSegs),
         query : SeqsUpTo([k : QueryKeys, v : QueryVals], MaxQueryParams)]

\* The values of key k in query order, blank values dropped
\* (parse_qs has keep_blank_values=False).
RECURSIVE QsValues(_, _)
QsValues(query, k) ==
    IF query = <<>> THEN <<>>
    ELSE LET p == Head(query)
             rest == QsValues(Tail(query), k)
         IN IF p.k = k /\ p.v # "" THEN <<p.v>> \o rest ELSE rest

\* parse_qs: a dict from the keys that keep a value to their values.
parse_qs(query) ==
    [k \in {q \in QueryKeys : QsValues(query, q) # <<>>} |-> QsValues(query, k)]

\* path.lstrip('/'): every leading slash goes, so leading empty segments go.
RECURSIVE lstrip(_)
lstrip(path) ==
    IF path = <<>> THEN <<"">>
    ELSE IF Head(path) = "" THEN lstrip(Tail(path))
    ELSE path

\* path.startswith(('/embed/', '/v/'))
StartsWithEmbedOrV(path) ==
    /\ Len(path) >= 2
    /\ path[1] \in {"embed", "v"}

\* path.split('/'): the leading empty piece, then the segments.
split(path) == <<"">> \o path

\* extract_video_id: an if/elif/elif chain, so a youtube.com URL that is not a
\* /watch?v= URL falls out of the chain to the raise.  (Python indexes from 0,
\* TLA+ from 1: split(...)[2] is written [2 + 1].)
extract_video_id(u) ==
    IF u.netloc \in {"www.youtube.com", "youtube.com"}
    THEN IF u.path = <<"watch">> /\ "v" \in DOMAIN parse_qs(u.query)
         THEN Ok(<<parse_qs(u.query)["v"][1]>>)
         ELSE HTTPException(400, <<"Could not extract video ID from URL">>)
    ELSE IF u.netloc = "youtu.be"
    THEN Ok(lstrip(u.path))
    ELSE IF StartsWithEmbedOrV(u.path)
    THEN Ok(<<split(u.path)[2 + 1]>>)
    ELSE HTTPException(400, <<"Could not extract video ID from URL">>)

(***************************************************************************)
(* Track sets, their merge and the two-phase selection                     *)
(***************************************************************************)
MaxVariants == 2
MaxPrefs == 2

Exts == {"json3", "srv3"}
AutoLangs == {"en", "es"}
PrefLangs == {"en", "es", "fr"}

\* The format variants of one language: the k-th variant of language l in the
\* manual ("m") or automatic ("a") set has its own fetch URL <<o, l, k>>.
Formats(o, l, exts) ==
    [k \in 1..Len(exts) |-> [ext |-> exts[k], url |-> <<o, l, k>>]]

\* A dict is the sequence of its items in insertion order, keys distinct.
LangOrders(L) ==
    {s \in SeqsUpTo(L, Cardinality(L)) :
        \A i, j \in 1..Len(s) : i # j => s[i] # s[j]}

TrackSets(o, L, n) ==
    UNION {{[i \in 1..Len(ord) |->
                [lang |-> ord[i], formats |-> Formats(o, ord[i], f[i])]] :
            f \in [1..Len(ord) -> SeqsUpTo(Exts, n)]} :
           ord \in LangOrders(L)}

\* The manual sets tried against every automatic set.
ManualPool ==
    {<<>>,
     <<[lang |-> "en", formats |-> Formats("m", "en", <<"srv3">>)]>>,
     <<[lang |-> "en", formats |-> Formats("m", "en", <<"json3">>)]>>,
     <<[lang |-> "fr", formats |-> Formats("m", "fr", <<"json3">>)]>>,
     <<[lang |-> "es", formats |-> Formats("m", "es", <<"json3">>)],
       [lang |-> "en", formats |-> Formats("m", "en", <<"srv3", "json3">>)]>>}

Keys(d) == {d[i].lang : i \in 1..Len(d)}

\* d[l], for l in Keys(d)
Get(d, l) == d[CHOOSE i \in 1..Len(d) : d[i].lang = l].formats

\* {**a, **b}: a's keys keep their place, b's value replaces a's on a key of
\* both, and b's other keys follow in b's order.
DictMerge(a, b) ==
    [i \in 1..Len(a) |->
        IF a[i].lang \in Keys(b)
        THEN [lang |-> a[i].lang, formats |-> Get(b, a[i].lang)]
        ELSE a[i]]
    \o SelectSeq(b, LAMBDA e : e.lang \notin Keys(a))

NoFormat == [ext |-> "", url |-> <<>>]

\* The inner loop of lines 96-100 and 107-111: the first variant whose ext
\* is json3, NoFormat when the loop ends without a break.
RECURSIVE FirstJson3(_)
FirstJson3(formats) ==
    IF formats = <<>> THEN NoFormat
    ELSE IF Head(formats).ext = "json3" THEN Head(formats)
    ELSE FirstJson3(Tail(formats))

NoTrack == [subtitle_data |-> NoFormat, used_language |-> ""]

\* Lines 92-102: the preferred languages in caller order.
RECURSIVE PreferredPass(_, _)
PreferredPass(all, langs) ==
    IF langs = <<>> THEN NoTrack
    ELSE LET lang == Head(langs)
             hit == IF lang \in Keys(all) THEN FirstJson3(Get(all, lang))
                    ELSE NoFormat
         IN IF hit # NoFormat
            THEN [subtitle_data |-> hit, used_language |-> lang]
            ELSE PreferredPass(all, Tail(langs))

\* Lines 106-113: every language of the set in insertion order.
RECURSIVE AnyPass(_)
AnyPass(all) ==
    IF all = <<>> THEN NoTrack
    ELSE LET hit == FirstJson3(Head(all).formats)
         IN IF hit # NoFormat
            THEN [subtitle_data |-> hit, used_language |-> Head(all).lang]
            ELSE AnyPass(Tail(all))

\* Mutant of SelectTrack: the scan of the whole set runs first.
SelectTrackAnyFirst(all, langs) ==
    IF all = <<>> THEN Raise(<<"No subtitles available for this video">>)
    ELSE LET t == IF AnyPass(all) # NoTrack THEN AnyPass(all)
                  ELSE PreferredPass(all, langs)
         IN IF t = NoTrack
            THEN Raise(<<"Could not find suitable subtitle format">>)
            ELSE Ok(t)

\* Mutant of SelectTrack: no scan of the whole set after the preferred pass.
SelectTrackNoFallback(all, langs) ==
    IF all = <<>> THEN Raise(<<"No subtitles available for this video">>)
    ELSE IF PreferredPass(all, langs) = NoTrack
    THEN Raise(<<"Could not find suitable subtitle format">>)
    ELSE Ok(PreferredPass(all, langs))

\* Lines 85-116 of get_transcript_with_ytdlp.
SelectTrack(all, langs) ==
    IF all = <<>> THEN Raise(<<"No subtitles available for this video">>)
    ELSE LET first == PreferredPass(all, langs)
             t == IF first = NoTrack THEN AnyPass(all) ELSE first
         IN IF t = NoTrack
            THEN Raise(<<"Could not find suitable subtitle format">>)
            ELSE Ok(t)

(***************************************************************************)
(* The json3 decoder                                                       *)
(***************************************************************************)
MaxEvents == 2

Whitespace == {" ", "\n"}

\* An optional integer key of an event.
Absent == [present |-> FALSE, ms |-> 0]
Ms(n) == [present |-> TRUE, ms |-> n]

\* A seg with and without the utf8 key.
U(text) == [has_utf8 |-> TRUE, utf8 |-> text]
NoUtf8 == [has_utf8 |-> FALSE, utf8 |-> <<>>]

\* The segs lists tried: empty, no utf8 key, whitespace only, one fragment,
\* and fragments " a " and "b " around a seg without utf8.
SegsPool ==
    {<<>>,
     <<NoUtf8>>,
     <<U(<<" ">>), U(<<"\n">>)>>,
     <<U(<<"a">>)>>,
     <<U(<<" ", "a", " ">>), NoUtf8, U(<<"b", " ">>)>>}

TStartPool == {Absent, Ms(1000), Ms(0 - 1000)}
DurationPool == {Absent, Ms(0), Ms(2500)}

EventPool ==
    [has_segs : {TRUE}, segs : SegsPool,
     tStartMs : TStartPool, dDurationMs : DurationPool]
    \cup [has_segs : {FALSE}, segs : {<<>>},
          tStartMs : TStartPool, dDurationMs : DurationPool]

\* A document with the events key, and the document without it.
Documents ==
    [has_events : {TRUE}, events : SeqsUpTo(EventPool, MaxEvents)]
    \cup {[has_events |-> FALSE, events |-> <<>>]}

\* Seconds are exact fractions num/den: x / 1000 is [num |-> x, den |-> 1000].
DivBy1000(x) == [num |-> x, den |-> 1000]
RatEq(a, b) == a.num * b.den = b.num * a.den
RatSign(a) == IF a.num * a.den > 0 THEN 1 ELSE IF a.num = 0 THEN 0 ELSE 0 - 1

\* The literal 2.0 of line 134.
DefaultDuration == [num |-> 2, den |-> 1]

\* ''.join(parts)
RECURSIVE Join(_)
Join(parts) == IF parts = <<>> THEN <<>> ELSE Head(parts) \o Join(Tail(parts))

\* str.strip()
strip(s) ==
    LET keep == {i \in 1..Len(s) : s[i] \notin Whitespace}
    IN IF keep = {} THEN <<>>
       ELSE SubSeq(s, CHOOSE i \in keep : \A j \in keep : i <= j,
                      CHOOSE i \in keep : \A j \in keep : i >= j)

\* Lines 137-139: the utf8 values of the segs that carry one.
RECURSIVE TextParts(_)
TextParts(segs) ==
    IF segs = <<>> THEN <<>>
    ELSE IF Head(segs).has_utf8
    THEN <<Head(segs).utf8>> \o TextParts(Tail(segs))
    ELSE TextParts(Tail(segs))

\* Mutant of EventSegments: the fragments joined with a space, untrimmed
\* text tested for emptiness.
EventSegmentsSpaced(event) ==
    IF ~event.has_segs THEN <<>>
    ELSE LET parts == TextParts(event.segs)
             spaced == [i \in 1..Len(parts) |->
                          IF i = 1 THEN parts[i] ELSE <<" ">> \o parts[i]]
         IN IF parts = <<>> THEN <<>>
            ELSE <<[text |-> strip(Join(spaced)),
                    start |-> DivBy1000(event.tStartMs.ms),
                    duration |-> IF event.dDurationMs.present
                                 THEN DivBy1000(event.dDurationMs.ms)
                                 ELSE DefaultDuration]>>

\* Mutant of EventSegments: the default duration taken from .get's 0.
EventSegmentsZeroDefault(event) ==
    IF ~event.has_segs THEN <<>>
    ELSE LET parts == TextParts(event.segs)
             text == strip(Join(parts))
         IN IF parts = <<>> \/ text = <<>> THEN <<>>
            ELSE <<[text |-> text,
                    start |-> DivBy1000(event.tStartMs.ms),
                    duration |-> DivBy1000(event.dDurationMs.ms)]>>

\* Lines 132-148, the body of the loop for one event: what it appends.
\* event.get(k, 0) of an absent key is 0, which is the ms field of Absent.
EventSegments(event) ==
    IF ~event.has_segs THEN <<>>
    ELSE LET start_time == DivBy1000(event.tStartMs.ms)
             duration == IF event.dDurationMs.present
                         THEN DivBy1000(event.dDurationMs.ms)
                         ELSE DefaultDuration
             text_parts == TextParts(event.segs)
             text == strip(Join(text_parts))
         IN IF text_parts = <<>> THEN <<>>
            ELSE IF text = <<>> THEN <<>>
            ELSE <<[text |-> text, start |-> start_time, duration |-> duration]>>

\* Lines 128-150: events = subtitle_json.get('events', []) and the loop.
RECURSIVE DecodeEvents(_)
DecodeEvents(events) ==
    IF events = <<>> THEN <<>>
    ELSE EventSegments(Head(events)) \o DecodeEvents(Tail(events))

Decode(doc) == DecodeEvents(doc.events)

(***************************************************************************)
(* Variable groups and their values in a specification that leaves them    *)
(* alone                                                                   *)
(***************************************************************************)
NoUrl == [netloc |-> "", path |-> <<>>, query |-> <<>>]
NoDocument == [has_events |-> FALSE, events |-> <<>>]

UrlIdle == url_str = NoUrl /\ video_id = NotRun
SelIdle ==
    /\ subtitles = <<>> /\ auto_subtitles = <<>> /\ preferred_langs = <<>>
    /\ all_subtitles = NotRun /\ selected = NotRun
DecIdle == subtitle_json = NoDocument /\ transcript = NotRun
ServerIdle == cookie_file = FALSE /\ loop = 0 /\ req = <<>>

urlVars == <<url_str, video_id>>
selVars == <<subtitles, auto_subtitles, preferred_langs, all_subtitles, selected>>
decVars == <<subtitle_json, transcript>>
serverVars == <<cookie_file, loop, req>>

(***************************************************************************)
(* The extraction backend as the handlers see it                           *)
(***************************************************************************)
\* str.lower() on the message parts that have upper-case letters.
lower(part) ==
    CASE part = "Bot" -> "bot"
      [] part = "ERROR: " -> "error: "
      [] part = "Sign in to confirm" -> "sign in to confirm"
      [] part = "Video unavailable" -> "video unavailable"
      [] part = "HTTP Error 429: Too Many Requests" -> "http error 429: too many requests"
      [] OTHER -> part

\* needle in message, the needle being one part.
In(needle, message) == \E i \in 1..Len(message) : message[i] = needle

\* Lines 169 and 245: "Sign in to confirm" in m or "bot" in m.lower()
AuthChallenge(message) ==
    \/ In("Sign in to confirm", message)
    \/ In("bot", [i \in 1..Len(message) |-> lower(message[i])])

\* Mutant of ShouldRetry: the cookie file alone decides.
ShouldRetryOnAnyError(message, exists) == exists

\* Lines 169 and 245: the whole condition of the retry.
ShouldRetry(message, exists) == AuthChallenge(message) /\ exists

\* What ydl.extract_info and ydl.urlopen do for one call: extract_info
\* raises error, or returns info with the two track sets; urlopen followed
\* by json.loads raises fetch_error, or returns doc.
Failing(error) ==
    [failed |-> TRUE, error |-> error, subtitles |-> <<>>,
     automatic_captions |-> <<>>, fetch_failed |-> FALSE, fetch_error |-> <<>>,
     doc |-> [has_events |-> FALSE, events |-> <<>>]]
Info(manual, auto, doc) ==
    [failed |-> FALSE, error |-> <<>>, subtitles |-> manual,
     automatic_captions |-> auto, fetch_failed |-> FALSE, fetch_error |-> <<>>,
     doc |-> doc]
InfoFetchFailing(manual, auto, error) ==
    [failed |-> FALSE, error |-> <<>>, subtitles |-> manual,
     automatic_captions |-> auto, fetch_failed |-> TRUE, fetch_error |-> error,
     doc |-> [has_events |-> FALSE, events |-> <<>>]]

SpokenEvent(text) ==
    [has_segs |-> TRUE, segs |-> <<U(text)>>, tStartMs |-> Ms(1000),
     dDurationMs |-> Ms(2500)]
WindowEvent ==
    [has_segs |-> FALSE, segs |-> <<>>, tStartMs |-> Ms(0), dDurationMs |-> Absent]

\* A document of three events, two of them spoken.
SpokenDoc ==
    [has_events |-> TRUE,
     events |-> <<SpokenEvent(<<"a">>), WindowEvent, SpokenEvent(<<" ", "b", " ">>)>>]

EnAuto == <<[lang |-> "en", formats |-> Formats("a", "en", <<"srv3", "json3">>)]>>
EnManual == <<[lang |-> "en", formats |-> Formats("m", "en", <<"json3">>)]>>
EnNoUrl == <<[lang |-> "en", formats |-> <<[ext |-> "json3", url |-> <<>>]>>]>>

\* The backend behaviours tried at every call.
BackendPool ==
    {Failing(<<"ERROR: ", "Sign in to confirm", " you're not a ", "bot">>),
     Failing(<<"ERROR: ", "Bot", " check failed">>),
     Failing(<<"ERROR: ", "Video unavailable">>),
     Info(<<>>, <<>>, SpokenDoc),
     Info(<<>>, EnAuto, SpokenDoc),
     Info(EnManual, <<>>, [has_events |-> FALSE, events |-> <<>>]),
     Info(<<>>, EnNoUrl, SpokenDoc),
     InfoFetchFailing(<<>>, EnAuto, <<"HTTP Error 429: Too Many Requests">>)}

\* Lines 73-153: extract, merge, select, fetch, decode; every exception is
\* re-raised as Exception("Error extracting transcript: " + str(e)).
get_transcript_with_ytdlp(backend, langs) ==
    LET sel == SelectTrack(DictMerge(backend.subtitles, backend.automatic_captions),
                           langs)
        r == IF backend.failed THEN Raise(backend.error)
             ELSE IF ~sel.ok THEN sel
             ELSE IF sel.val.subtitle_data.url = <<>>
             THEN Raise(<<"Could not find subtitle URL">>)
             ELSE IF backend.fetch_failed THEN Raise(backend.fetch_error)
             ELSE Ok([transcript |-> Decode(backend.doc),
                      language |-> sel.val.used_language])
    IN IF r.ok THEN r
       ELSE Raise(<<"Error extracting transcript: ">> \o r.detail)

(***************************************************************************)
(* The handlers on the event loop                                          *)
(*                                                                         *)
(* Every handler is an async def that never awaits: once the loop has      *)
(* started it, it holds the loop until it responds, the blocking calls     *)
(* extract_info and urlopen included.  A request blocked in such a call    *)
(* sits at pc "first" or "second".                                         *)
(***************************************************************************)
NumReqs == 2
Reqs == 1..NumReqs

UrlPool ==
    {[netloc |-> "youtu.be", path |-> <<"abc">>, query |-> <<>>],
     [netloc |-> "www.youtube.com", path |-> <<"watch">>, query |-> <<>>]}

\* Linkurl.languages, default ["en"] (line 27)
LangPool == {<<"en">>}

NoBody ==
    [video_id |-> <<>>, transcript_text |-> <<>>, transcript_data |-> <<>>,
     language |-> "", manual_subtitles |-> <<>>, automatic_subtitles |-> <<>>,
     status |-> ""]
NoResponse == [status |-> 0, detail |-> <<>>, body |-> NoBody]
NoAttempts == <<>>

\* kind: the endpoint; pc: "none" (no request), "pending" (accepted, its
\* handler not started), "first" (blocked in attempt A), "retry" (between
\* the decision to retry and attempt B), "second" (blocked in attempt B),
\* "done" (responded).  attempts: the extraction calls made, each with its
\* use_cookies argument and whether ydl_opts carried cookiefile.  first and
\* second: what attempts A and B returned or raised.  cookie_seen: what
\* os.path.exists(cookie_path) answered in the retry condition.
NoRequest ==
    [kind |-> "none", pc |-> "none", url |-> NoUrl, languages |-> <<>>,
     video_id |-> <<>>, attempts |-> NoAttempts, first |-> NotRun,
     cookie_seen |-> "unchecked", second |-> NotRun, response |-> NoResponse]

\* " ".join(texts)
RECURSIVE JoinSpace(_)
JoinSpace(texts) ==
    IF texts = <<>> THEN <<>>
    ELSE IF Len(texts) = 1 THEN texts[1]
    ELSE Head(texts) \o <<" ">> \o JoinSpace(Tail(texts))

\* Mutant of TranscriptResponse: no check for an empty transcript.
TranscriptResponseUnchecked(vid, out) ==
    [status |-> 200, detail |-> <<>>,
     body |-> [NoBody EXCEPT
                 !.video_id = vid,
                 !.transcript_text =
                     JoinSpace([i \in 1..Len(out.transcript) |-> out.transcript[i].text]),
                 !.transcript_data = out.transcript,
                 !.language = out.language]]

\* Lines 180-192: 404 for an empty transcript, else the response body.
TranscriptResponse(vid, out) ==
    IF out.transcript = <<>>
    THEN [status |-> 404, detail |-> <<"No transcript found">>, body |-> NoBody]
    ELSE [status |-> 200, detail |-> <<>>,
          body |-> [NoBody EXCEPT
                      !.video_id = vid,
                      !.transcript_text =
                          JoinSpace([i \in 1..Len(out.transcript) |->
                                        out.transcript[i].text]),
                      !.transcript_data = out.transcript,
                      !.language = out.language]]

\* list(d.keys())
KeyList(d) == [i \in 1..Len(d) |-> d[i].lang]

\* Lines 259-267
SubtitlesResponse(backend) ==
    [status |-> 200, detail |-> <<>>,
     body |-> [NoBody EXCEPT
                 !.manual_subtitles = KeyList(backend.subtitles),
                 !.automatic_subtitles = KeyList(backend.automatic_captions)]]

ErrorResponse(status, detail) == [status |-> status, detail |-> detail, body |-> NoBody]

Seen(exists) == IF exists THEN "yes" ELSE "no"

\* A request reaches the server.
ArriveTranscript(r) ==
    /\ req[r].pc = "none"
    /\ \E u \in UrlPool, langs \in LangPool :
           req' = [req EXCEPT ![r] = [NoRequest EXCEPT
                       !.kind = "transcript", !.pc = "pending",
                       !.url = u, !.languages = langs]]
    /\ UNCHANGED <<cookie_file, loop, urlVars, selVars, decVars>>

ArriveSubtitles(r) ==
    /\ req[r].pc = "none"
    /\ \E u \in {v \in UrlPool : v.netloc = "youtu.be"} :
           req' = [req EXCEPT ![r] = [NoRequest EXCEPT
                       !.kind = "subtitles", !.pc = "pending", !.url = u]]
    /\ UNCHANGED <<cookie_file, loop, urlVars, selVars, decVars>>

ArriveHealth(r) ==
    /\ req[r].pc = "none"
    /\ req' = [req EXCEPT ![r] = [NoRequest EXCEPT
                   !.kind = "health", !.pc = "pending"]]
    /\ UNCHANGED <<cookie_file, loop, urlVars, selVars, decVars>>

\* Lines 156-165: the loop starts the handler; it raises 400 or goes into
\* attempt A, without cookies.
get_youtube_transcript_start(r) ==
    /\ loop = 0
    /\ req[r].pc = "pending" /\ req[r].kind = "transcript"
    /\ LET vid == extract_video_id(req[r].url)
       IN IF ~vid.ok
          THEN /\ req' = [req EXCEPT ![r].pc = "done",
                              ![r].response = ErrorResponse(vid.status, vid.detail)]
               /\ loop' = 0
          ELSE /\ req' = [req EXCEPT ![r].pc = "first",
                              ![r].video_id = vid.val,
                              ![r].attempts =
                                  <<[use_cookies |-> FALSE, cookiefile |-> FALSE]>>]
               /\ loop' = r
    /\ UNCHANGED <<cookie_file, urlVars, selVars, decVars>>

\* Lines 165-192: attempt A returns or raises.
get_youtube_transcript_first(r) ==
    /\ req[r].pc = "first" /\ req[r].kind = "transcript"
    /\ \E backend \in BackendPool :
         LET out == get_transcript_with_ytdlp(backend, req[r].languages)
         IN IF out.ok
            THEN /\ req' = [req EXCEPT ![r].pc = "done", ![r].first = out,
                                ![r].response =
                                    TranscriptResponse(req[r].video_id, out.val)]
                 /\ loop' = 0
            ELSE IF ShouldRetry(out.detail, cookie_file)
            THEN /\ req' = [req EXCEPT ![r].pc = "retry", ![r].first = out,
                                ![r].cookie_seen = Seen(cookie_file)]
                 /\ loop' = loop
            ELSE /\ req' = [req EXCEPT ![r].pc = "done", ![r].first = out,
                                ![r].cookie_seen =
                                    IF AuthChallenge(out.detail)
                                    THEN Seen(cookie_file) ELSE "unchecked",
                                ![r].response = ErrorResponse(404,
                                    <<"Could not retrieve transcript: ">> \o out.detail)]
                 /\ loop' = 0
    /\ UNCHANGED <<cookie_file, urlVars, selVars, decVars>>

\* Lines 172 and 56-76: attempt B is called with use_cookies=True; the
\* cookie file is looked up again and attached if it is still there.
get_youtube_transcript_retry(r) ==
    /\ req[r].pc = "retry" /\ req[r].kind = "transcript"
    /\ req' = [req EXCEPT ![r].pc = "second",
                   ![r].attempts = Append(@, [use_cookies |-> TRUE,
                                              cookiefile |-> cookie_file])]
    /\ UNCHANGED <<cookie_file, loop, urlVars, selVars, decVars>>

\* Lines 172-175 and 180-192: attempt B returns or raises.
get_youtube_transcript_second(r) ==
    /\ req[r].pc = "second" /\ req[r].kind = "transcript"
    /\ \E backend \in BackendPool :
         LET out == get_transcript_with_ytdlp(backend, req[r].languages)
         IN req' = [req EXCEPT ![r].pc = "done", ![r].second = out,
                        ![r].response =
                            IF out.ok
                            THEN TranscriptResponse(req[r].video_id, out.val)
                            ELSE ErrorResponse(404,
                                <<"Could not retrieve transcript even with cookies: ">>
                                \o out.detail)]
    /\ loop' = 0
    /\ UNCHANGED <<cookie_file, urlVars, selVars, decVars>>

\* Lines 229-241: the loop starts the handler, which goes into attempt A.
list_available_subtitles_start(r) ==
    /\ loop = 0
    /\ req[r].pc = "pending" /\ req[r].kind = "subtitles"
    /\ req' = [req EXCEPT ![r].pc = "first",
                   ![r].attempts = <<[use_cookies |-> FALSE, cookiefile |-> FALSE]>>]
    /\ loop' = r
    /\ UNCHANGED <<cookie_file, urlVars, selVars, decVars>>

\* Lines 241-270: attempt A returns or raises; on a retry ydl_opts carries
\* cookiefile and attempt B is called at once.
list_available_subtitles_first(r) ==
    /\ req[r].pc = "first" /\ req[r].kind = "subtitles"
    /\ \E backend \in BackendPool :
         IF ~backend.failed
         THEN /\ req' = [req EXCEPT ![r].pc = "done", ![r].first = Ok(<<>>),
                             ![r].response = SubtitlesResponse(backend)]
              /\ loop' = 0
         ELSE IF ShouldRetry(backend.error, cookie_file)
         THEN /\ req' = [req EXCEPT ![r].pc = "second",
                             ![r].first = Raise(backend.error),
                             ![r].cookie_seen = Seen(cookie_file),
                             ![r].attempts = Append(@, [use_cookies |-> TRUE,
                                                        cookiefile |-> TRUE])]
              /\ loop' = loop
         ELSE /\ req' = [req EXCEPT ![r].pc = "done",
                             ![r].first = Raise(backend.error),
                             ![r].cookie_seen =
                                 IF AuthChallenge(backend.error)
                                 THEN Seen(cookie_file) ELSE "unchecked",
                             ![r].response = ErrorResponse(500,
                                 <<"Error listing subtitles: ">> \o backend.error)]
              /\ loop' = 0
    /\ UNCHANGED <<cookie_file, urlVars, selVars, decVars>>

\* Lines 254-270: attempt B returns, or raises into the outer except.
list_available_subtitles_second(r) ==
    /\ req[r].pc = "second" /\ req[r].kind = "subtitles"
    /\ \E backend \in BackendPool :
         req' = [req EXCEPT ![r].pc = "done",
                     ![r].second = IF backend.failed THEN Raise(backend.error)
                                   ELSE Ok(<<>>),
                     ![r].response =
                         IF backend.failed
                         THEN ErrorResponse(500,
                                  <<"Error listing subtitles: ">> \o backend.error)
                         ELSE SubtitlesResponse(backend)]
    /\ loop' = 0
    /\ UNCHANGED <<cookie_file, urlVars, selVars, decVars>>

\* Lines 200-202
health_check(r) ==
    /\ loop = 0
    /\ req[r].pc = "pending" /\ req[r].kind = "health"
    /\ req' = [req EXCEPT ![r].pc = "done",
                   ![r].response = [status |-> 200, detail |-> <<>>,
                                    body |-> [NoBody EXCEPT !.status = "healthy"]]]
    /\ UNCHANGED <<cookie_file, loop, urlVars, selVars, decVars>>

\* Another process creates or deletes youtube_cookies.txt.
CookieFileChange ==
    /\ cookie_file' = ~cookie_file
    /\ UNCHANGED <<loop, req, urlVars, selVars, decVars>>

Init ==
    /\ cookie_file \in BOOLEAN
    /\ loop = 0
    /\ req = [r \in Reqs |-> NoRequest]
    /\ UrlIdle /\ SelIdle /\ DecIdle

Next ==
    \/ \E r \in Reqs : ArriveTranscript(r)
    \/ \E r \in Reqs : ArriveSubtitles(r)
    \/ \E r \in Reqs : ArriveHealth(r)
    \/ \E r \in Reqs : get_youtube_transcript_start(r)
    \/ \E r \in Reqs : get_youtube_transcript_first(r)
    \/ \E r \in Reqs : get_youtube_transcript_retry(r)
    \/ \E r \in Reqs : get_youtube_transcript_second(r)
    \/ \E r \in Reqs : list_available_subtitles_start(r)
    \/ \E r \in Reqs : list_available_subtitles_first(r)
    \/ \E r \in Reqs : list_available_subtitles_second(r)
    \/ \E r \in Reqs : health_check(r)
    \/ CookieFileChange

Spec == Init /\ [][Next]_vars

(***************************************************************************)
(* The three pure parts, each run on its own bounded inputs                *)
(***************************************************************************)
\* Line 159: video_id = extract_video_id(url_str)
ParseUrl ==
    /\ video_id = NotRun
    /\ video_id' = extract_video_id(url_str)
    /\ UNCHANGED <<url_str, selVars, decVars, serverVars>>

InitUrl == url_str \in Urls /\ video_id = NotRun /\ SelIdle /\ DecIdle /\ ServerIdle
NextUrl == ParseUrl
SpecUrl == InitUrl /\ [][NextUrl]_vars

\* Line 83: all_subtitles = {**subtitles, **auto_subtitles}
MergeSubtitles ==
    /\ all_subtitles = NotRun
    /\ all_subtitles' = Ok(DictMerge(subtitles, auto_subtitles))
    /\ UNCHANGED <<subtitles, auto_subtitles, preferred_langs, selected,
                   urlVars, decVars, serverVars>>

\* Lines 85-116 on the merged set.
SelectSubtitles ==
    /\ all_subtitles.ok
    /\ selected = NotRun
    /\ selected' = SelectTrack(all_subtitles.val, preferred_langs)
    /\ UNCHANGED <<subtitles, auto_subtitles, preferred_langs, all_subtitles,
                   urlVars, decVars, serverVars>>

InitSel ==
    /\ subtitles \in ManualPool
    /\ auto_subtitles \in TrackSets("a", AutoLangs, MaxVariants)
    /\ preferred_langs \in SeqsUpTo(PrefLangs, MaxPrefs)
    /\ all_subtitles = NotRun /\ selected = NotRun
    /\ UrlIdle /\ DecIdle /\ ServerIdle
NextSel == MergeSubtitles \/ SelectSubtitles
SpecSel == InitSel /\ [][NextSel]_vars

\* Lines 128-150 on the parsed document.
DecodeDocument ==
    /\ transcript = NotRun
    /\ transcript' = Ok(Decode(subtitle_json))
    /\ UNCHANGED <<subtitle_json, urlVars, selVars, serverVars>>

InitDec ==
    /\ subtitle_json \in Documents /\ transcript = NotRun
    /\ UrlIdle /\ SelIdle /\ ServerIdle
NextDec == DecodeDocument
SpecDec == InitDec /\ [][NextDec]_vars

(***************************************************************************)
(* Claims about the pure parts                                             *)
(***************************************************************************)
\* The identifier the accepted shapes give, in the precedence of the rules:
\* /watch?v=ID on a youtube.com host, youtu.be/ID, then /embed/ID or /v/ID
\* on whatever host.
ShapeVideoId(u) ==
    IF /\ u.netloc \in {"www.youtube.com", "youtube.com"}
       /\ u.path = <<"watch">>
       /\ \E i \in 1..Len(u.query) : u.query[i].k = "v" /\ u.query[i].v # ""
    THEN LET i == CHOOSE i \in 1..Len(u.query) :
                     /\ u.query[i].k = "v" /\ u.query[i].v # ""
                     /\ \A j \in 1..(i - 1) :
                            ~(u.query[j].k = "v" /\ u.query[j].v # "")
         IN <<TRUE, <<u.query[i].v>>>>
    ELSE IF u.netloc = "youtu.be"
    THEN <<TRUE, lstrip(u.path)>>
    ELSE IF StartsWithEmbedOrV(u.path)
    THEN <<TRUE, <<u.path[2]>>>>
    ELSE <<FALSE, <<>>>>

\* C1: once extract_video_id has run, it has returned exactly the ID of the
\* URL's accepted shape (watch?v=ID on youtube.com or www.youtube.com,
\* youtu.be/ID, /embed/ID or /v/ID whatever the host), and has failed with
\* status 400 for every URL of no accepted shape.
C1_IdOfEveryAcceptedShape ==
    video_id # NotRun =>
        LET want == ShapeVideoId(url_str)
        IN IF want[1]
           THEN video_id.ok /\ video_id.val = want[2]
           ELSE ~video_id.ok /\ video_id.status = 400

HasJson3(formats) == \E k \in 1..Len(formats) : formats[k].ext = "json3"

\* The least element of a non-empty set of integers.
Least(S) == CHOOSE i \in S : \A j \in S : i <= j

\* The json3 variant of lowest index.
EarliestJson3(formats) ==
    formats[Least({k \in 1..Len(formats) : formats[k].ext = "json3"})]

\* Positions of the preference list whose language is in the set with a json3 variant.
PreferredHits(all, langs) ==
    {i \in 1..Len(langs) : langs[i] \in Keys(all) /\ HasJson3(Get(all, langs[i]))}

\* Positions of the set whose language has a json3 variant.
AnyHits(all) == {i \in 1..Len(all) : HasJson3(all[i].formats)}

\* C2: on a non-empty merged set the selected track is the first json3
\* variant of the earliest preferred language that is in the set and has
\* one; only when no preferred language has one is it the first json3
\* variant in set order; the reported language is the selected track's.
C2_TwoPhaseSelection ==
    (selected # NotRun /\ all_subtitles.val # <<>>) =>
        LET all == all_subtitles.val
            hits == PreferredHits(all, preferred_langs)
        IN IF hits # {}
           THEN LET lang == preferred_langs[Least(hits)]
                IN /\ selected.ok
                   /\ selected.val.used_language = lang
                   /\ selected.val.subtitle_data = EarliestJson3(Get(all, lang))
           ELSE AnyHits(all) # {} =>
                LET e == all[Least(AnyHits(all))]
                IN /\ selected.ok
                   /\ selected.val.used_language = e.lang
                   /\ selected.val.subtitle_data = EarliestJson3(e.formats)

\* A preferred language wins over a language earlier in the set that has a
\* json3 variant too, and its json3 variant is not its first variant.
C2_Witness ==
    /\ selected.ok
    /\ Len(all_subtitles.val) >= 2
    /\ all_subtitles.val[1].lang # selected.val.used_language
    /\ HasJson3(all_subtitles.val[1].formats)
    /\ \E i \in 1..Len(preferred_langs) :
           preferred_langs[i] = selected.val.used_language
    /\ selected.val.subtitle_data.url[3] = 2

\* C3: the merged set holds every language of either set, and a language of
\* both sets keeps the manual set's variants.
C3_ManualTakesPrecedence ==
    all_subtitles.ok =>
        /\ Keys(all_subtitles.val) = Keys(subtitles) \cup Keys(auto_subtitles)
        /\ \A l \in Keys(subtitles) \cap Keys(auto_subtitles) :
               Get(all_subtitles.val, l) = Get(subtitles, l)

\* Some preferred language is in the set and no preferred language in the
\* set has a json3 variant.
PreferredPresentWithoutJson3(all, langs) ==
    /\ \E i \in 1..Len(langs) : langs[i] \in Keys(all)
    /\ \A i \in 1..Len(langs) :
           langs[i] \in Keys(all) => ~HasJson3(Get(all, langs[i]))

\* C4 as stated: an empty set fails with "no subtitles available", and a set
\* in which a preferred language is present and no preferred language
\* present has a json3 variant fails with "no suitable format".
C4_PreferredWithoutFormatFails ==
    selected # NotRun =>
        /\ all_subtitles.val = <<>> =>
               selected = Raise(<<"No subtitles available for this video">>)
        /\ PreferredPresentWithoutJson3(all_subtitles.val, preferred_langs) =>
               selected = Raise(<<"Could not find suitable subtitle format">>)

\* C4 amended: an empty set fails with "no subtitles available"; a set in
\* which a preferred language is present and no preferred language present
\* has a json3 variant fails with "no suitable format" when no other
\* language of the set has a json3 variant either, and otherwise yields a
\* track of a language outside the preference list.
C4_NoFormatAnywhereFails ==
    selected # NotRun =>
        /\ all_subtitles.val = <<>> =>
               selected = Raise(<<"No subtitles available for this video">>)
        /\ PreferredPresentWithoutJson3(all_subtitles.val, preferred_langs) =>
               IF AnyHits(all_subtitles.val) = {}
               THEN selected = Raise(<<"Could not find suitable subtitle format">>)
               ELSE /\ selected.ok
                    /\ \A i \in 1..Len(preferred_langs) :
                           preferred_langs[i] # selected.val.used_language

C4_Witness ==
    /\ selected = Raise(<<"Could not find suitable subtitle format">>)
    /\ PreferredPresentWithoutJson3(all_subtitles.val, preferred_langs)
    /\ Len(all_subtitles.val) >= 2

\* The text of an event as the claim words it: the utf8 fragments in order,
\* no separator, trimmed.
FragmentText(event) ==
    LET frags == SelectSeq(event.segs, LAMBDA sg : sg.has_utf8)
    IN strip(Join([i \in 1..Len(frags) |-> frags[i].utf8]))

\* The events of a document that yield a segment.
Yielding(events) ==
    {i \in 1..Len(events) : events[i].has_segs /\ FragmentText(events[i]) # <<>>}

\* The k-th yielding event, in document order.
NthYielding(events, k) ==
    events[CHOOSE i \in Yielding(events) :
               Cardinality({j \in Yielding(events) : j <= i}) = k]

\* C5: the output holds, in event order and without deduplication, one
\* segment per event that has segs and a non-empty trimmed text; its text
\* is that text, its start tStartMs/1000 (0 when absent), its duration
\* dDurationMs/1000 when present, else 2.0.
C5_DecoderMapping ==
    transcript.ok =>
        LET events == subtitle_json.events
            out == transcript.val
        IN /\ Len(out) = Cardinality(Yielding(events))
           /\ \A k \in 1..Len(out) :
                  LET e == NthYielding(events, k)
                  IN /\ out[k].text = FragmentText(e)
                     /\ IF e.tStartMs.present
                        THEN RatEq(out[k].start, [num |-> e.tStartMs.ms, den |-> 1000])
                        ELSE RatEq(out[k].start, [num |-> 0, den |-> 1])
                     /\ IF e.dDurationMs.present
                        THEN RatEq(out[k].duration, [num |-> e.dDurationMs.ms, den |-> 1000])
                        ELSE RatEq(out[k].duration, [num |-> 2, den |-> 1])

\* Two equal events both yield their segment "a b", started at 1.0 s, with
\* the default duration.
C5_Witness ==
    /\ transcript.ok
    /\ Len(transcript.val) = 2
    /\ transcript.val[1] = transcript.val[2]
    /\ transcript.val[1].text = <<"a", " ", "b">>
    /\ RatEq(transcript.val[1].start, [num |-> 1, den |-> 1])
    /\ RatEq(transcript.val[1].duration, [num |-> 2, den |-> 1])
    /\ ~subtitle_json.events[1].dDurationMs.present

\* C9 as stated: every emitted segment has non-empty text, start >= 0 and
\* duration > 0, whatever the document's tStartMs and dDurationMs.
C9_SegmentInvariant ==
    transcript.ok =>
        \A k \in 1..Len(transcript.val) :
            /\ transcript.val[k].text # <<>>
            /\ RatSign(transcript.val[k].start) >= 0
            /\ RatSign(transcript.val[k].duration) > 0

\* C9 amended: every emitted segment has non-empty text; its start is >= 0
\* exactly when its event's tStartMs is absent or >= 0, and its duration is
\* > 0 exactly when its event's dDurationMs is absent or > 0.
C9_SegmentInvariantInRange ==
    transcript.ok =>
        \A k \in 1..Len(transcript.val) :
            LET e == NthYielding(subtitle_json.events, k)
            IN /\ transcript.val[k].text # <<>>
               /\ RatSign(transcript.val[k].start) >= 0
                      <=> (~e.tStartMs.present \/ e.tStartMs.ms >= 0)
               /\ RatSign(transcript.val[k].duration) > 0
                      <=> (~e.dDurationMs.present \/ e.dDurationMs.ms > 0)

\* A segment of an event without dDurationMs next to one of an event whose
\* dDurationMs is 2500.
C9_Witness ==
    /\ transcript.ok
    /\ Len(transcript.val) = 2
    /\ ~subtitle_json.events[1].dDurationMs.present
    /\ RatSign(transcript.val[1].duration) > 0
    /\ subtitle_json.events[2].dDurationMs = Ms(2500)
    /\ subtitle_json.events[2].tStartMs = Absent
    /\ RatSign(transcript.val[2].start) = 0

(***************************************************************************)
(* Claims about the handlers                                               *)
(***************************************************************************)
\* The outcome of the last extraction attempt of a request.
LastAttempt(q) == IF Len(q.attempts) = 2 THEN q.second ELSE q.first

\* texts joined by single spaces, built from the right.
RECURSIVE SpaceJoined(_, _)
SpaceJoined(texts, n) ==
    IF n = 0 THEN <<>>
    ELSE IF n = 1 THEN texts[1]
    ELSE SpaceJoined(texts, n - 1) \o <<" ">> \o texts[n]

\* C6: a POST /transcript response is 400 exactly when the identifier
\* parser fails, and then no extraction was attempted; 404 whenever the last
\* extraction attempt failed or decoded no segment; never 500; and 200 only
\* with at least one decoded segment and transcript_text the segments' texts
\* joined by single spaces.
C6_StatusMapping ==
    \A r \in Reqs :
        (req[r].kind = "transcript" /\ req[r].pc = "done") =>
            LET q == req[r]
                last == LastAttempt(q)
                data == q.response.body.transcript_data
            IN /\ q.response.status \in {200, 400, 404}
               /\ q.response.status = 400 <=> ~extract_video_id(q.url).ok
               /\ q.response.status = 400 => q.attempts = <<>>
               /\ (q.attempts # <<>> /\ ~last.ok) => q.response.status = 404
               /\ (last.ok /\ last.val.transcript = <<>>) => q.response.status = 404
               /\ q.response.status = 200 =>
                      /\ last.ok
                      /\ data = last.val.transcript
                      /\ data # <<>>
                      /\ q.response.body.transcript_text =
                             SpaceJoined([i \in 1..Len(data) |-> data[i].text],
                                         Len(data))

\* One request answered 200 with the text "a b" of two segments, another
\* answered 404 for a document without the events key.
C6_Witness ==
    \E r, p \in Reqs :
        /\ req[r].kind = "transcript" /\ req[r].pc = "done"
        /\ req[r].response.status = 200
        /\ req[r].response.body.transcript_text = <<"a", " ", "b">>
        /\ Len(req[r].response.body.transcript_data) = 2
        /\ req[p].kind = "transcript" /\ req[p].pc = "done"
        /\ req[p].first.ok /\ req[p].first.val.transcript = <<>>
        /\ req[p].response.status = 404

\* C7: a request makes at most two extraction attempts, the first without
\* credentials; once attempt A is over, attempt B is made or due if and only
\* if A failed with a message that has the marker and the cookie file was
\* there when looked up; nothing follows B.
C7_RetryOrchestration ==
    \A r \in Reqs :
        LET q == req[r]
            decided == /\ q.kind \in {"transcript", "subtitles"}
                       /\ q.pc \in {"retry", "second", "done"}
                       /\ q.attempts # <<>>
            retried == q.pc = "retry" \/ Len(q.attempts) = 2
        IN /\ Len(q.attempts) <= 2
           /\ (q.attempts # <<>>) =>
                  (~q.attempts[1].use_cookies /\ ~q.attempts[1].cookiefile)
           /\ (Len(q.attempts) = 2) => q.attempts[2].use_cookies
           /\ decided =>
                  (retried <=> (/\ ~q.first.ok
                                /\ AuthChallenge(q.first.detail)
                                /\ q.cookie_seen = "yes"))
           /\ (q.pc = "first") => (Len(q.attempts) = 1 /\ q.first = NotRun)
           /\ (q.pc = "second") => (Len(q.attempts) = 2 /\ q.second = NotRun)
           /\ (q.pc = "done" /\ Len(q.attempts) = 2) => q.second # NotRun

\* One request went through attempt B and failed there; another failed A
\* with the marker while the cookie file was missing and made no attempt B.
C7_Witness ==
    \E r, p \in Reqs :
        /\ req[r].pc = "done" /\ Len(req[r].attempts) = 2 /\ ~req[r].second.ok
        /\ req[p].pc = "done" /\ Len(req[p].attempts) = 1
        /\ ~req[p].first.ok /\ AuthChallenge(req[p].first.detail)
        /\ req[p].cookie_seen = "no"

\* Any handler of request r can start.
Startable(r) ==
    \/ get_youtube_transcript_start(r)
    \/ list_available_subtitles_start(r)
    \/ health_check(r)

\* C8: while a request is blocked in an extraction attempt, every other
\* request that has arrived can be processed.
C8_NonStalling ==
    \A r, p \in Reqs :
        (r # p /\ req[r].pc \in {"first", "second"} /\ req[p].pc = "pending")
            => ENABLED Startable(p)

\* message ends with tail.
EndsWith(message, tail) ==
    /\ Len(message) >= Len(tail)
    /\ SubSeq(message, Len(message) - Len(tail) + 1, Len(message)) = tail

\* The detail says that the failure is that of the retry with cookies.
NamesRetry(detail) ==
    In("Could not retrieve transcript even with cookies: ", detail)

\* C10: on both endpoints, a request that failed in attempt A and was not
\* retried answers with A's error, and a request that failed in attempt B
\* answers with a detail that names the retry with cookies and carries B's
\* error.
C10_TerminalFailure ==
    \A r \in Reqs :
        (req[r].kind \in {"transcript", "subtitles"} /\ req[r].pc = "done") =>
            LET q == req[r]
            IN /\ (Len(q.attempts) = 1 /\ ~q.first.ok) =>
                      EndsWith(q.response.detail, q.first.detail)
               /\ (Len(q.attempts) = 2 /\ ~q.second.ok) =>
                      /\ EndsWith(q.response.detail, q.second.detail)
                      /\ NamesRetry(q.response.detail)

=============================================================================
